---- MODULE Spec2Model ----
(***************************************************************************)
(* Model of HierarchicalSampler (src/HierarchicalSampler.py): the cluster  *)
(* tree built from a merge sequence, the subtree weights, and the          *)
(* sample() cycle: select a pruning node, pick a leaf under it, update the *)
(* counts on the path leaf..node, refine the admissible set and pruning.   *)
(*                                                                         *)
(* Numbers.  The source computes with floats.  The model computes the same *)
(* quantities exactly: a weight or a score is a rational <<num, den>>, and *)
(* the admissibility test, which contains square roots, is decided by the  *)
(* equivalent integer inequalities (see is_admissible).                    *)
(***************************************************************************)
EXTENDS Integers, Sequences, FiniteSets, TLC

\* Bounds of the model.
MaxPoints == 3          \* the merge sequences cover 2..MaxPoints points
MaxTrail == 6           \* the walk of _get_upward_path is followed this far
MaxCached == 2          \* results of _get_upward_path kept while it is followed
MaxInstances == 10      \* a node with one label only is tested with 2..MaxInstances
                        \* revealed instances

\* Python's None, the sentinel of sample() and of the initial pruning label.
None == -2
Sentinel == -1
\* self.beta = 2.0
beta == 2

VARIABLES
    children_,        \* clustering.children_ : the merge sequence
    X_train_shape,    \* X_train.shape[0] : the number k of labeled points
    y_merged,         \* y_merged[z] : true label of point z (0-based)
    nodes,            \* self.nodes : id -> Node fields
    root,             \* self.root
    num_leaves,       \* self.num_leaves
    pruning,          \* self.pruning : node id -> label
    labels,           \* self.labels
    revealed,         \* self.revealed
    admissible_set,   \* self.admissible_set : set of <<node id, label>>
    tuning_phase,     \* self.tuning_phase
    pc,               \* where the sampler is: construction steps, idle, loop
    calls,            \* sample() calls completed so far
    v_id,             \* local v_id of sample()
    z_id,             \* local z_id of sample()
    ret,              \* what the last completed sample() returned
    walk,             \* a call of _get_upward_path: its arguments, its
                      \* locals trail, cur, parent, and where it is
    twin              \* a second sampler over the same tree and labeled
                      \* data, with its own labels for the unlabeled points

vars == <<children_, X_train_shape, y_merged, nodes, root, num_leaves,
          pruning, labels, revealed, admissible_set, tuning_phase, pc,
          calls, v_id, z_id, ret, walk, twin>>

inputs == <<children_, X_train_shape, y_merged>>
tree == <<nodes, root, num_leaves>>

----------------------------------------------------------------------------
\* Rationals <<num, den>> with den > 0.

RatLess(a, b) == a[1] * b[2] < b[1] * a[2]
RatAdd(a, b) == <<a[1] * b[2] + b[1] * a[2], a[2] * b[2]>>
RatMul(a, b) == <<a[1] * b[1], a[2] * b[2]>>
RatDiv(a, b) == <<a[1] * b[2], a[2] * b[1]>>
RatEq(a, b) == a[1] * b[2] = b[1] * a[2]

----------------------------------------------------------------------------
(***************************************************************************)
(* Floats.  Two scores that differ as rationals differ by far more than    *)
(* the rounding of the float operations that computed them, and compare as *)
(* the rationals do.  Two scores that are equal as rationals can differ as *)
(* floats (1 - 2/3.0 is not 1/3.0), and `children_score < best_score` is   *)
(* then decided on the floats, which the operators below compute digit for *)
(* digit: IEEE 754 binary64, rounding to nearest, ties to even.            *)
(***************************************************************************)

\* The element of a one-element set.  {e(x) : x \in {a}} evaluates a once and
\* e on its value; TheOne takes the result out of the set.
TheOne(S) == CHOOSE x \in S : TRUE

\* Natural numbers of any size: the sequence of their digits in base Base,
\* lowest digit first, without leading zeros (0 is <<>>).
LimbBits == 14
Base == 16384

RECURSIVE Pow2(_)
Pow2(k) == IF k = 0 THEN 1 ELSE 2 * Pow2(k - 1)

\* the place of the highest digit of a[1..i] that is not 0, or 0
RECURSIVE TopDigit(_, _)
TopDigit(a, i) == IF i = 0 \/ a[i] # 0 THEN i ELSE TopDigit(a, i - 1)

\* a without its leading zeros
Trim(a) == TheOne({SubSeq(x, 1, TopDigit(x, Len(x))) : x \in {a}})

BigOf(n) == Trim(<<n % Base, (n \div Base) % Base, n \div (Base * Base)>>)

Limb(a, i) == IF i <= Len(a) THEN a[i] ELSE 0

RECURSIVE BigAddFrom(_, _, _, _)
BigAddFrom(a, b, i, carry) ==
    IF i > Len(a) /\ i > Len(b)
    THEN IF carry = 0 THEN <<>> ELSE <<carry>>
    ELSE \* t: the digit sum
         TheOne({<<t % Base>> \o BigAddFrom(a, b, i + 1, t \div Base) :
                    t \in {Limb(a, i) + Limb(b, i) + carry}})

BigAdd(a, b) == TheOne({BigAddFrom(x, y, 1, 0) : x \in {a}, y \in {b}})

\* a - b for a >= b
RECURSIVE BigSubFrom(_, _, _, _)
BigSubFrom(a, b, i, borrow) ==
    IF i > Len(a) THEN <<>>
    ELSE TheOne({<<t % Base>> \o BigSubFrom(a, b, i + 1, IF t < 0 THEN 1 ELSE 0) :
                    t \in {Limb(a, i) - Limb(b, i) - borrow}})

BigSub(a, b) == TheOne({Trim(BigSubFrom(x, y, 1, 0)) : x \in {a}, y \in {b}})

\* -1, 0, 1 as a < b, a = b, a > b
RECURSIVE BigCmpFrom(_, _, _)
BigCmpFrom(a, b, i) ==
    IF i = 0 THEN 0
    ELSE IF a[i] < b[i] THEN -1
    ELSE IF a[i] > b[i] THEN 1
    ELSE BigCmpFrom(a, b, i - 1)

BigCmp(a, b) ==
    TheOne({IF Len(x) < Len(y) THEN -1
            ELSE IF Len(x) > Len(y) THEN 1
            ELSE BigCmpFrom(x, y, Len(x)) : x \in {a}, y \in {b}})

\* a * d for a digit d
RECURSIVE BigMulDigitFrom(_, _, _, _)
BigMulDigitFrom(a, d, i, carry) ==
    IF i > Len(a)
    THEN IF carry = 0 THEN <<>> ELSE <<carry>>
    ELSE TheOne({<<t % Base>> \o BigMulDigitFrom(a, d, i + 1, t \div Base) :
                    t \in {a[i] * d + carry}})

BigMulDigit(a, d) == TheOne({Trim(BigMulDigitFrom(x, y, 1, 0)) : x \in {a}, y \in {d}})

\* a * Base^k
ShiftLimbs(a, k) == TheOne({IF x = <<>> THEN x ELSE [i \in 1 .. k |-> 0] \o x : x \in {a}})

RECURSIVE BigMulFrom(_, _, _)
BigMulFrom(a, b, j) ==
    IF j > Len(b) THEN <<>>
    ELSE BigAdd(ShiftLimbs(BigMulDigit(a, b[j]), j - 1), BigMulFrom(a, b, j + 1))

BigMul(a, b) == TheOne({BigMulFrom(x, y, 1) : x \in {a}, y \in {b}})

\* the number of binary digits
RECURSIVE BitsOfDigit(_)
BitsOfDigit(d) == IF d = 0 THEN 0 ELSE 1 + BitsOfDigit(d \div 2)

BitLen(a) ==
    TheOne({IF x = <<>> THEN 0 ELSE LimbBits * (Len(x) - 1) + BitsOfDigit(x[Len(x)]) :
            x \in {a}})

\* a * 2^k and floor(a / 2^k)
BigShl(a, k) == ShiftLimbs(BigMulDigit(a, Pow2(k % LimbBits)), k \div LimbBits)

BigShr(a, k) ==
    TheOne({IF w >= Len(x) THEN <<>>
            ELSE Trim([i \in 1 .. Len(x) - w |->
                        (x[i + w] \div p) + (Limb(x, i + w + 1) % p) * (Base \div p)]) :
            x \in {a}, w \in {k \div LimbBits}, p \in {Pow2(k % LimbBits)}})

IsOdd(a) == TheOne({x # <<>> /\ x[1] % 2 = 1 : x \in {a}})

\* the largest digit q with d * q <= a, looked for from guess >= q down
RECURSIVE BestDigit(_, _, _)
BestDigit(a, d, guess) ==
    IF BigCmp(BigMulDigit(d, guess), a) <= 0 THEN guess
    ELSE TheOne({BestDigit(a, d, g) : g \in {guess - 1}})

\* the digit that the two top digits of a and the top digit of d give; it is
\* not below the largest digit q with d * q <= a, for a < d * Base, and at
\* most 2 above it when the top digit of d is Base / 2 or more
GuessDigit(a, d) ==
    TheOne({IF g < Base THEN g ELSE Base - 1 :
            g \in {(Limb(a, Len(d) + 1) * Base + Limb(a, Len(d))) \div d[Len(d)]}})

\* long division of a by b > 0, from the quotient digit of Base^j down, for
\* a < b * Base^(j+1): <<quotient, remainder>>.  (bj: b * Base^j; q: the
\* digit; r: what is left of a; rest: the division of r)
RECURSIVE BigDivModFrom(_, _, _)
BigDivModFrom(a, b, j) ==
    IF j < 0 THEN <<<<>>, a>>
    ELSE TheOne({TheOne({TheOne({TheOne({
            <<IF q = 0 THEN rest[1] ELSE BigAdd(ShiftLimbs(<<q>>, j), rest[1]),
              rest[2]>> :
                rest \in {BigDivModFrom(r, b, j - 1)}}) :
                r \in {BigSub(a, BigMulDigit(bj, q))}}) :
                q \in {BestDigit(a, bj, GuessDigit(a, bj))}}) :
                bj \in {ShiftLimbs(b, j)}})

\* short division of a[1..i] by a digit d, rem left from the digits above:
\* <<quotient, remainder>>
RECURSIVE BigDivDigitFrom(_, _, _, _)
BigDivDigitFrom(a, d, i, rem) ==
    IF i = 0 THEN <<<<>>, rem>>
    ELSE TheOne({TheOne({<<rest[1] \o <<t \div d>>, rest[2]>> :
                    rest \in {BigDivDigitFrom(a, d, i - 1, t % d)}}) :
                    t \in {rem * Base + a[i]}})

\* floor(a / b) and the remainder, for b > 0.  (s: the binary digits by which
\* a and b are shifted to bring the top digit of b to Base / 2 or more)
BigDivMod(a, b) ==
    TheOne({IF Len(y) = 1
            THEN TheOne({<<Trim(qr[1]), BigOf(qr[2])>> :
                            qr \in {BigDivDigitFrom(x, y[1], Len(x), 0)}})
            ELSE TheOne({TheOne({<<qr[1], BigShr(qr[2], s)>> :
                            qr \in {BigDivModFrom(BigShl(x, s), BigShl(y, s),
                                                  Len(x) + 1 - Len(y))}}) :
                            s \in {LimbBits - BitsOfDigit(y[Len(y)])}}) :
            x \in {a}, y \in {b}})

----------------------------------------------------------------------------
\* A float (IEEE 754 binary64, positive or zero, in the normal range): <<m, e>>
\* is m * 2^e with m a natural number of at most 53 binary digits (2^53 too).
Precision == 53

\* the number of binary zeros at the low end of a > 0, from digit i on
RECURSIVE LowZerosOfDigit(_)
LowZerosOfDigit(d) == IF d % 2 = 1 THEN 0 ELSE 1 + LowZerosOfDigit(d \div 2)

RECURSIVE LowZerosFrom(_, _)
LowZerosFrom(a, i) ==
    IF a[i] = 0 THEN LimbBits + LowZerosFrom(a, i + 1) ELSE LowZerosOfDigit(a[i])

\* m * 2^e written with an odd m
OddForm(m0, e) ==
    TheOne({IF m = <<>> THEN <<m, 0>>
            ELSE TheOne({<<BigShr(m, z), e + z>> : z \in {LowZerosFrom(m, 1)}}) :
            m \in {m0}})

FloatOf(n) == OddForm(BigOf(n), 0)

\* m * 2^e rounded to the nearest float, ties to even.  (sh: the digits to
\* drop; q: the digits kept; c: the dropped digits against one half)
RoundToFloat(m0, e) ==
    TheOne({IF BitLen(m) <= Precision THEN OddForm(m, e)
            ELSE TheOne({TheOne({TheOne({
                    IF c > 0 \/ (c = 0 /\ IsOdd(q))
                    THEN OddForm(BigAdd(q, <<1>>), e + sh)
                    ELSE OddForm(q, e + sh) :
                        c \in {BigCmp(BigSub(m, BigShl(q, sh)), BigShl(<<1>>, sh - 1))}}) :
                        q \in {BigShr(m, sh)}}) :
                        sh \in {BitLen(m) - Precision}}) :
            m \in {m0}})

\* x * y
FloatMul(x0, y0) ==
    TheOne({RoundToFloat(BigMul(x[1], y[1]), x[2] + y[2]) : x \in {x0}, y \in {y0}})

\* the two mantissas over the smaller of the two exponents
Aligned(x0, y0) ==
    TheOne({TheOne({<<BigShl(x[1], x[2] - e), BigShl(y[1], y[2] - e), e>> :
                e \in {IF x[2] < y[2] THEN x[2] ELSE y[2]}}) :
            x \in {x0}, y \in {y0}})

\* x + y, and x - y for x >= y
FloatAdd(x0, y0) ==
    TheOne({IF x[1] = <<>> THEN y
            ELSE IF y[1] = <<>> THEN x
            ELSE TheOne({RoundToFloat(BigAdd(a[1], a[2]), a[3]) : a \in {Aligned(x, y)}}) :
            x \in {x0}, y \in {y0}})

FloatSub(x0, y0) ==
    TheOne({IF y[1] = <<>> THEN x
            ELSE TheOne({RoundToFloat(BigSub(a[1], a[2]), a[3]) : a \in {Aligned(x, y)}}) :
            x \in {x0}, y \in {y0}})

\* x / y for y > 0: the quotient to 56 binary digits or more, and one more
\* digit that tells whether there is a remainder, rounded.  (s: the digits
\* appended to x for that; qr: quotient and remainder)
FloatDiv(x0, y0) ==
    TheOne({IF x[1] = <<>> THEN x
            ELSE TheOne({TheOne({
                    RoundToFloat(BigAdd(BigShl(qr[1], 1),
                                        IF qr[2] = <<>> THEN <<>> ELSE <<1>>),
                                 x[2] - y[2] - s - 1) :
                        qr \in {BigDivMod(BigShl(x[1], s), y[1])}}) :
                        s \in {LET d == Precision + 3 + BitLen(y[1]) - BitLen(x[1])
                               IN IF d > 0 THEN d ELSE 0}}) :
            x \in {x0}, y \in {y0}})

\* x < y
FloatLess(x0, y0) ==
    TheOne({IF x[1] = <<>> THEN y[1] # <<>>
            ELSE IF y[1] = <<>> THEN FALSE
            ELSE TheOne({BigCmp(a[1], a[2]) < 0 : a \in {Aligned(x, y)}}) :
            x \in {x0}, y \in {y0}})

----------------------------------------------------------------------------
\* Inputs: the merge sequences the clustering can return for N points.  Each
\* merge joins two distinct parentless ids into the next unused id; a pair
\* is listed with its smaller id first.

RECURSIVE MergeSeqsFrom(_, _, _)
MergeSeqsFrom(free, next, remaining) ==
    IF remaining = 0 THEN {<<>>}
    ELSE UNION { { <<p>> \o s :
                   s \in MergeSeqsFrom((free \ {p[1], p[2]}) \cup {next},
                                       next + 1, remaining - 1) } :
                 p \in {q \in free \X free : q[1] < q[2]} }

MergeSeqs(N) == MergeSeqsFrom(0 .. N - 1, N, N - 1)

\* The tree of the end-to-end scenario: (0,1)->4, (2,3)->5, (4,5)->6.
ScenarioTree == << <<0, 1>>, <<2, 3>>, <<4, 5>> >>

\* A chain of four leaves: (0,1)->4, (2,4)->5, (3,5)->6.
ChainTree == << <<0, 1>>, <<2, 4>>, <<3, 5>> >>

InputTrees ==
    UNION { MergeSeqs(N) : N \in 2 .. MaxPoints } \cup {ScenarioTree, ChainTree}

\* The label values of the data.
LabelValues == {0, 1}

----------------------------------------------------------------------------
\* Node.__init__

NewNode(node_id) ==
    [id |-> node_id, left |-> None, right |-> None, parent |-> None,
     is_leaf |-> TRUE, weight |-> <<0, 1>>, subtree_leaves |-> <<>>,
     class_to_instances |-> [l \in LabelValues |-> 0], num_revealed |-> 0]

\* (mutant) the loop without `right.parent = node`
RECURSIVE LinkMergesRightUnowned(_, _, _, _)
LinkMergesRightUnowned(ns, ch, i, N) ==
    IF i > Len(ch) THEN ns
    ELSE LET left_id == ch[i][1]
             right_id == ch[i][2]
             node_id == N + i - 1
             findNode(idx) == IF idx \in DOMAIN ns THEN ns[idx] ELSE NewNode(idx)
             left == [findNode(left_id) EXCEPT !.parent = node_id]
             right == findNode(right_id)
             node == [findNode(node_id) EXCEPT !.left = left_id, !.right = right_id]
         IN LinkMergesRightUnowned((right_id :> right) @@ (left_id :> left)
                                     @@ (node_id :> node) @@ ns,
                                   ch, i + 1, N)

\* _construct_tree: the loop over clustering.children_.  ns is self.nodes
\* after the first i-1 merges; N is X_merged.shape[0].
RECURSIVE LinkMerges(_, _, _, _)
LinkMerges(ns, ch, i, N) ==
    IF i > Len(ch) THEN ns
    ELSE LET left_id == ch[i][1]
             right_id == ch[i][2]
             node_id == N + i - 1
             findNode(idx) == IF idx \in DOMAIN ns THEN ns[idx] ELSE NewNode(idx)
             left == [findNode(left_id) EXCEPT !.parent = node_id]
             right == [findNode(right_id) EXCEPT !.parent = node_id]
             node == [findNode(node_id) EXCEPT !.left = left_id, !.right = right_id]
         IN LinkMerges((right_id :> right) @@ (left_id :> left)
                         @@ (node_id :> node) @@ ns,
                       ch, i + 1, N)

\* _construct_tree: mark every node that has a child as not a leaf.
MarkLeaves(ns) ==
    [n \in DOMAIN ns |->
        [ns[n] EXCEPT !.is_leaf = ~(ns[n].left # None \/ ns[n].right # None)]]

\* _construct_tree: the root is the node without a parent.
FindRoot(ns) == CHOOSE n \in DOMAIN ns : ns[n].parent = None

\* _compute_weights.visit: the leaves of the subtree, left to right.
RECURSIVE SubtreeLeaves(_, _)
SubtreeLeaves(ns, n) ==
    IF ns[n].is_leaf THEN <<n>>
    ELSE SubtreeLeaves(ns, ns[n].left) \o SubtreeLeaves(ns, ns[n].right)

\* (mutant) the weights are normalised by the number of nodes
WithWeightsOverNodes(ns, n_leaves) ==
    [n \in DOMAIN ns |->
        LET sl == SubtreeLeaves(ns, n)
        IN [ns[n] EXCEPT !.subtree_leaves = sl,
                         !.weight = <<Len(sl), Cardinality(DOMAIN ns)>>]]

\* _compute_weights: weight = len(subtree_leaves) / num_leaves.
WithWeights(ns, n_leaves) ==
    [n \in DOMAIN ns |->
        LET sl == SubtreeLeaves(ns, n)
        IN [ns[n] EXCEPT !.subtree_leaves = sl, !.weight = <<Len(sl), n_leaves>>]]

----------------------------------------------------------------------------
\* (mutant) the boundary between labeled and unlabeled ids off by one
IsUnlabeledOffByOne(node_id, k) == node_id > k

\* _is_unlabeled
IsUnlabeled(node_id, k) == node_id >= k

\* (mutant) the walk stops below v: the trail leaves v out
RECURSIVE UpwardPathBelow(_, _, _)
UpwardPathBelow(ns, z, v) ==
    IF z = v THEN <<>> ELSE <<z>> \o UpwardPathBelow(ns, ns[z].parent, v)

\* _get_upward_path for z a descendant of v (or v itself): z, parent(z), .., v
RECURSIVE UpwardPath(_, _, _)
UpwardPath(ns, z, v) ==
    IF z = v THEN <<z>> ELSE <<z>> \o UpwardPath(ns, ns[z].parent, v)

\* v is z or an ancestor of z
RECURSIVE IsAncestorOrSelf(_, _, _)
IsAncestorOrSelf(ns, v, z) ==
    \/ z = v
    \/ ns[z].parent # None /\ IsAncestorOrSelf(ns, v, ns[z].parent)

SeqToSet(s) == {s[i] : i \in 1 .. Len(s)}

----------------------------------------------------------------------------
\* (mutant) the heaviest pruning node is always chosen
SelectSetHeaviest(ns, pr) ==
    {v \in DOMAIN pr : \A o \in DOMAIN pr : ns[o].weight[1] <= ns[v].weight[1]}

\* _select.method_1: the nodes np.random.choice can return, those of the
\* pruning with a positive probability (weight).  (np.random.choice needs
\* probabilities that sum to 1; the weights of the keys of a partition do.)
SelectSet(ns, pr) == {v \in DOMAIN pr : ns[v].weight[1] > 0}

\* _pick_sample_id_from_node: the unrevealed leaves under node_id, in the
\* order of subtree_leaves.
UnrevealedLeaves(ns, rev, node_id) ==
    SelectSeq(ns[node_id].subtree_leaves, LAMBDA s : s \notin rev)

\* _pick_sample_id_from_node: the unrevealed labeled leaves under node_id;
\* the loop returns at the first of them.
LabeledUnrevealed(ns, rev, k, node_id) ==
    SelectSeq(UnrevealedLeaves(ns, rev, node_id), LAMBDA s : ~IsUnlabeled(s, k))

\* (mutant) sample_ids without the test `sample_id not in self.revealed`
SampleIdsWithRevealed(ns, rev, k, node_id) ==
    SeqToSet(SelectSeq(ns[node_id].subtree_leaves, LAMBDA s : IsUnlabeled(s, k)))

\* _pick_sample_id_from_node: sample_ids when the loop runs to its end.
SampleIds(ns, rev, k, node_id) ==
    SeqToSet(SelectSeq(UnrevealedLeaves(ns, rev, node_id),
                       LAMBDA s : IsUnlabeled(s, k)))

\* _pick_sample_id_from_node returns None
PickIsNone(ns, rev, k, tuning, node_id) ==
    /\ LabeledUnrevealed(ns, rev, k, node_id) = <<>>
    /\ tuning \/ SampleIds(ns, rev, k, node_id) = {}

\* _pick_sample_id_from_node: the pairs <<leaf added to revealed, leaf
\* returned>> of a call that returns a leaf.  A labeled leaf is returned as
\* it is found; otherwise there are two independent random.choice draws.
PickOutcomes(ns, rev, k, tuning, node_id) ==
    LET lab == LabeledUnrevealed(ns, rev, k, node_id)
        sample_ids == SampleIds(ns, rev, k, node_id)
    IN IF lab # <<>> THEN {<<lab[1], lab[1]>>}
       ELSE IF tuning THEN {}
       ELSE {<<unlabeled_id, returned>> :
                unlabeled_id \in sample_ids, returned \in sample_ids}

\* _pick_sample_id_from_node: `assert self.tuning_phase` fails
PickAsserts(ns, rev, k, tuning, node_id) ==
    LabeledUnrevealed(ns, rev, k, node_id) # <<>> /\ ~tuning

\* what sample() returns when it returns nothing (Python's None); a returned
\* sample is a pair
NoValue == <<>>

\* (mutant) the sample is returned in the tuning phase too
SampleReturnAlways(tuning, z, y) == <<z, y[z]>>

\* sample(): the value returned: nothing in the tuning phase, else
\* (X_merged[z_id], y_merged[z_id]); the row z_id stands for its features
SampleReturn(tuning, z, y) == IF tuning THEN NoValue ELSE <<z, y[z]>>

\* (mutant) num_revealed is not counted
update_countsNoTotal(ns, z_label, path) ==
    [n \in DOMAIN ns |->
        IF n \in {path[i] : i \in 1 .. Len(path)}
        THEN [ns[n] EXCEPT !.class_to_instances[z_label] = @ + 1]
        ELSE ns[n]]

\* sample.update_counts over the path z..v
update_counts(ns, z_label, path) ==
    [n \in DOMAIN ns |->
        IF n \in SeqToSet(path)
        THEN [ns[n] EXCEPT !.class_to_instances[z_label] = @ + 1,
                           !.num_revealed = @ + 1]
        ELSE ns[n]]

----------------------------------------------------------------------------
\* _update

\* p_vl[(node_id, label)]: count / num_revealed when the label has been seen
\* at the node, else 0
p_vl(ns, node_id, label) ==
    IF ns[node_id].class_to_instances[label] > 0
    THEN <<ns[node_id].class_to_instances[label], ns[node_id].num_revealed>>
    ELSE <<0, 1>>

\* len(node.class_to_instances) == 0
NoObservations(ns, node_id) ==
    \A l \in DOMAIN ns[node_id].class_to_instances :
        ns[node_id].class_to_instances[l] = 0

(***************************************************************************)
(* 1 - p_LB(v,label) < beta * (1 - p_UB(v,lp)) for a node with n > 0       *)
(* revealed instances, c of `label` and cp of `lp`.  With p = c/n,         *)
(*   delta = 1/n + sqrt(p(1-p)/n) = (n + sqrt(A)) / n^2,  A = c(n-c)n      *)
(*   delta' = (n + sqrt(B)) / n^2,                        B = cp(n-cp)n    *)
(*   1 - LB  = min(n^2 - cn + n + sqrt(A), n^2) / n^2                      *)
(*   1 - UB' = max(n^2 - cp n - n - sqrt(B), 0) / n^2                      *)
(* The left side is positive, so the test is                               *)
(*   n^2 < 2(n^2 - cp n - n - sqrt B)        i.e. 2 sqrt(B) < K,   or      *)
(*   n^2 - cn + n + sqrt A < 2(n^2 - cp n - n - sqrt B)                    *)
(*                                i.e. sqrt(A) + 2 sqrt(B) < M,            *)
(* and each is decided by squaring.                                        *)
(***************************************************************************)
\* (mutant) the test with beta = 1
BoundTestBetaOne(c, cp, n) ==
    LET A == c * (n - c) * n
        B == cp * (n - cp) * n
        K == 0 - cp * n - n
        M == c * n - cp * n - 2 * n
        T == M * M - A - B
    IN \/ K > 0 /\ B < K * K
       \/ M > 0 /\ T > 0 /\ 4 * A * B < T * T

BoundTest(c, cp, n) ==
    LET A == c * (n - c) * n
        B == cp * (n - cp) * n
        K == (beta - 1) * n * n - beta * cp * n - beta * n
        M == (beta - 1) * n * n + c * n - beta * cp * n - (beta + 1) * n
        T == M * M - A - beta * beta * B
    IN \/ K > 0 /\ beta * beta * B < K * K
       \/ M > 0 /\ T > 0 /\ 4 * beta * beta * A * B < T * T

\* _update.is_admissible.  With no observation LB = 0 and UB = 1, so the
\* test is 1 < beta * min_other, min_other being 0, or inf without others.
is_admissible(ns, lbls, node_id, label) ==
    LET n == ns[node_id].num_revealed
        c == ns[node_id].class_to_instances[label]
    IN IF NoObservations(ns, node_id) THEN lbls \ {label} = {}
       ELSE \A lp \in lbls \ {label} :
                BoundTest(c, ns[node_id].class_to_instances[lp], n)

\* (mutant) the admissible set is recomputed: a pair that fails the test on
\* the present counts is dropped
AdmissibleAfterRecomputed(ns, adm, lbls, update_nodes, update_labels) ==
    {vl \in adm \cup (SeqToSet(update_nodes) \X SeqToSet(update_labels)) :
        is_admissible(ns, lbls, vl[1], vl[2])}

\* _update: the loop that adds to self.admissible_set
AdmissibleAfter(ns, adm, lbls, update_nodes, update_labels) ==
    adm \cup {vl \in SeqToSet(update_nodes) \X SeqToSet(update_labels) :
                is_admissible(ns, lbls, vl[1], vl[2])}

\* epsilon_tilda_vl[(node_id, label)]
epsilon_tilda_vl(ns, adm, node_id, label) ==
    IF <<node_id, label>> \in adm
    THEN LET p == p_vl(ns, node_id, label) IN <<p[2] - p[1], p[2]>>
    ELSE <<1, 1>>

\* best_label: min() returns the first minimiser in the iteration order of
\* the label set, the smallest label for small integer labels
best_label(ns, adm, lbls, node_id) ==
    CHOOSE l \in lbls :
        /\ \A m \in lbls : ~RatLess(epsilon_tilda_vl(ns, adm, node_id, m),
                                    epsilon_tilda_vl(ns, adm, node_id, l))
        /\ \A m \in lbls : m < l =>
                RatLess(epsilon_tilda_vl(ns, adm, node_id, l),
                        epsilon_tilda_vl(ns, adm, node_id, m))

\* (mutant) the children are looked at whether or not a label is admissible
has_admissibleAlways(adm, lbls, node_id) == TRUE

\* has_admissible
has_admissible(adm, lbls, node_id) == \E l \in lbls : <<node_id, l>> \in adm

\* How the float epsilon_tilda_vl[(node_id, label)] is computed: as 1, or as
\* 1 - count / (1.0 * num_revealed)
epsilon_tilda_how(ns, adm, node_id, label) ==
    IF <<node_id, label>> \in adm /\ ns[node_id].class_to_instances[label] > 0
    THEN <<"1-p", ns[node_id].class_to_instances[label], ns[node_id].num_revealed>>
    ELSE <<"1">>

\* The float a weight <<k, n>> is: k / (1.0 * n)
WeightFloat(w) == FloatDiv(FloatOf(w[1]), FloatOf(w[2]))

\* The float a score is, from how it is computed.  children_score is
\* 0 + left term + right term, each term child.weight / w_v * child score.
RECURSIVE ScoreFloat(_)
ScoreFloat(how) ==
    IF how[1] = "1" THEN FloatOf(1)
    ELSE IF how[1] = "1-p"
    THEN FloatSub(FloatOf(1), FloatDiv(FloatOf(how[2]), FloatOf(how[3])))
    ELSE TheOne({FloatAdd(
                    FloatMul(FloatDiv(WeightFloat(how[2]), w_v), ScoreFloat(how[5])),
                    FloatMul(FloatDiv(WeightFloat(how[3]), w_v), ScoreFloat(how[6]))) :
                w_v \in {WeightFloat(how[4])}})

\* bottom_up_compute.visit: s_v[node_id] before the children are looked at,
\* [best_score, {node_id: best_label}].  (score is the value of the score as
\* a rational, how is the way the float was computed.)
OwnResult(ns, adm, lbls, node_id) ==
    TheOne({[score |-> epsilon_tilda_vl(ns, adm, node_id, bl),
             how |-> epsilon_tilda_how(ns, adm, node_id, bl),
             pruning |-> (node_id :> bl)] :
            bl \in {best_label(ns, adm, lbls, node_id)}})

\* (mutant) the children are preferred when they are as good as the node
ScoreLessOrEqual(a, b) ==
    \/ RatLess(a.score, b.score)
    \/ RatEq(a.score, b.score)

\* children_score < best_score, on the floats
ScoreLess(a, b) ==
    \/ RatLess(a.score, b.score)
    \/ /\ RatEq(a.score, b.score)
       /\ FloatLess(ScoreFloat(a.how), ScoreFloat(b.how))

\* bottom_up_compute.visit: for a node with an admissible label that is not a
\* leaf, the choice between its own result and the combination of the
\* results l and r of its children
WithChildren(ns, node_id, own, l, r) ==
    LET node == ns[node_id]
        children_score ==
            RatAdd(RatMul(RatDiv(ns[node.left].weight, node.weight), l.score),
                   RatMul(RatDiv(ns[node.right].weight, node.weight), r.score))
        children_how ==
            <<"children", ns[node.left].weight, ns[node.right].weight,
              node.weight, l.how, r.how>>
        children_pruning == r.pruning @@ l.pruning
    IN TheOne({IF ScoreLess(children, own) THEN children ELSE own :
                children \in {[score |-> children_score, how |-> children_how,
                               pruning |-> children_pruning]}})

\* bottom_up_compute.visit: s_v[node_id] = [score, {v_id: label}], the
\* children visited first
RECURSIVE s_v(_, _, _, _)
s_v(ns, adm, lbls, node_id) ==
    IF has_admissible(adm, lbls, node_id) /\ ~ns[node_id].is_leaf
    THEN TheOne({WithChildren(ns, node_id, own, l, r) :
                    own \in {OwnResult(ns, adm, lbls, node_id)},
                    l \in {s_v(ns, adm, lbls, ns[node_id].left)},
                    r \in {s_v(ns, adm, lbls, ns[node_id].right)}})
    ELSE OwnResult(ns, adm, lbls, node_id)

\* (mutant) the key is not deleted
DictDelKeeps(d, key) == d

\* a dict without one key
DictDel(d, key) == [x \in DOMAIN d \ {key} |-> d[x]]

\* (mutant) the key is replaced by the result of its parent
RewriteKeyByParent(ns, adm, lbls, pr, v) ==
    TheOne({PL_prime @@ DictDel(pr, v) :
            PL_prime \in {s_v(ns, adm, lbls,
                              IF ns[v].parent # None THEN ns[v].parent ELSE v).pruning}})

\* _update: one round of the rewrite loop, for the key v_id of the original
\* pruning: del self.pruning[v_id]; self.pruning.update(PL_prime)
RewriteKey(ns, adm, lbls, pr, v) ==
    TheOne({PL_prime @@ DictDel(pr, v) :
            PL_prime \in {s_v(ns, adm, lbls, v).pruning}})

\* _update: original_pruning = list(self.pruning.keys()); the model lists
\* the keys by increasing id
RECURSIVE KeyList(_)
KeyList(keys) ==
    IF keys = {} THEN <<>>
    ELSE LET v == CHOOSE x \in keys : \A o \in keys : x <= o
         IN <<v>> \o KeyList(keys \ {v})

\* _update: the rewrite loop over original_pruning, from its i-th key on
RECURSIVE RewritePruning(_, _, _, _, _, _)
RewritePruning(ns, adm, lbls, pr, original_pruning, i) ==
    IF i > Len(original_pruning) THEN pr
    ELSE TheOne({RewritePruning(ns, adm, lbls, pr1, original_pruning, i + 1) :
                    pr1 \in {RewriteKey(ns, adm, lbls, pr, original_pruning[i])}})

\* _update: self.pruning after the rewrite loop
PruningAfter(ns, adm, lbls, pr) ==
    TheOne({RewritePruning(ns, adm, lbls, pr, original_pruning, 1) :
                original_pruning \in {KeyList(DOMAIN pr)}})

----------------------------------------------------------------------------
\* no call of _get_upward_path is followed, and there is no second sampler
NoWalk == [at |-> "off"]
NoTwin == [on |-> FALSE]

\* __init__ is entered with its inputs; the fields it has not assigned yet
\* hold placeholders
Init ==
    /\ children_ \in InputTrees
    /\ X_train_shape \in 0 .. Len(children_) + 1
    /\ y_merged \in [0 .. Len(children_) -> LabelValues]
    /\ nodes = <<>>
    /\ root = None
    /\ num_leaves = 0
    /\ pruning = <<>>
    /\ labels = {}
    /\ revealed = {}
    /\ admissible_set = {}
    /\ tuning_phase = FALSE
    /\ pc = "construct_tree"
    /\ calls = 0
    /\ v_id = Sentinel
    /\ z_id = Sentinel
    /\ ret = NoValue
    /\ walk = NoWalk
    /\ twin = NoTwin

\* __init__: self._construct_tree()
ConstructTree ==
    /\ pc = "construct_tree"
    /\ LET N == Len(children_) + 1
           ns == MarkLeaves(LinkMerges(<<>>, children_, 1, N))
       IN /\ nodes' = ns
          /\ root' = FindRoot(ns)
          /\ num_leaves' = N
    /\ pc' = "compute_weights"
    /\ UNCHANGED <<inputs, pruning, labels, revealed, admissible_set,
                   tuning_phase, calls, v_id, z_id, ret, walk, twin>>

\* __init__: self._compute_weights()
ComputeWeights ==
    /\ pc = "compute_weights"
    /\ nodes' = WithWeights(nodes, num_leaves)
    /\ pc' = "init_sampling"
    /\ UNCHANGED <<inputs, root, num_leaves, pruning, labels, revealed,
                   admissible_set, tuning_phase, calls, v_id, z_id, ret,
                   walk, twin>>

\* __init__: the sampling fields, and the tuning phase begins
InitSampling ==
    /\ pc = "init_sampling"
    /\ pruning' = (root :> Sentinel)
    /\ labels' = {y_merged[z] : z \in DOMAIN y_merged}
    /\ revealed' = {}
    /\ admissible_set' = {}
    /\ tuning_phase' = TRUE
    /\ pc' = "idle"
    /\ UNCHANGED <<inputs, tree, calls, v_id, z_id, ret, walk, twin>>

\* sample() is entered: by the tuning loop of __init__ (X_train.shape[0]
\* times), or by the user once the sampler is constructed
StartSample ==
    /\ pc = "idle"
    /\ tuning_phase => calls < X_train_shape
    /\ pc' = "loop"
    /\ v_id' = Sentinel
    /\ z_id' = Sentinel
    /\ UNCHANGED <<inputs, tree, pruning, labels, revealed, admissible_set,
                   tuning_phase, calls, ret, walk, twin>>

\* __init__: self.tuning_phase = False after the tuning loop
EndTuning ==
    /\ pc = "idle"
    /\ tuning_phase
    /\ calls >= X_train_shape
    /\ tuning_phase' = FALSE
    /\ UNCHANGED <<inputs, tree, pruning, labels, revealed, admissible_set,
                   pc, calls, v_id, z_id, ret, walk, twin>>

\* sample(): an iteration of the while loop in which the pick returns None
LoopRetry ==
    /\ pc = "loop"
    /\ \E v \in SelectSet(nodes, pruning) :
        /\ PickIsNone(nodes, revealed, X_train_shape, tuning_phase, v)
        /\ v_id' = v
        /\ z_id' = None
    /\ UNCHANGED <<inputs, tree, pruning, labels, revealed, admissible_set,
                   tuning_phase, pc, calls, ret, walk, twin>>

\* sample(): an iteration of the while loop in which the pick returns a leaf
\* (or its assertion fails); counts, admissible set and pruning are updated
\* and sample() returns
LoopPicked ==
    /\ pc = "loop"
    /\ \E v \in SelectSet(nodes, pruning) :
        IF PickAsserts(nodes, revealed, X_train_shape, tuning_phase, v)
        THEN /\ pc' = "error"
             /\ v_id' = v
             /\ UNCHANGED <<nodes, pruning, revealed, admissible_set, calls,
                            z_id, ret>>
        ELSE \E o \in PickOutcomes(nodes, revealed, X_train_shape, tuning_phase, v) :
             \* (path, ns, adm: the path z..v, the counts after update_counts
             \* and the admissible set after the first loop of _update, each
             \* computed once)
             LET z == o[2]
                 z_label == y_merged[z]
             IN \E path \in {UpwardPath(nodes, z, v)} :
                \E ns \in {update_counts(nodes, z_label, path)} :
                \E adm \in {AdmissibleAfter(ns, admissible_set, labels, path,
                                              <<z_label>>)} :
                /\ revealed' = revealed \cup {o[1]}
                /\ v_id' = v
                /\ z_id' = z
                /\ nodes' = ns
                /\ admissible_set' = adm
                /\ pruning' = PruningAfter(ns, adm, labels, pruning)
                /\ ret' = SampleReturn(tuning_phase, z, y_merged)
                /\ calls' = calls + 1
                /\ pc' = "idle"
    /\ UNCHANGED <<inputs, root, num_leaves, labels, tuning_phase, walk, twin>>

Next ==
    \/ ConstructTree
    \/ ComputeWeights
    \/ InitSampling
    \/ StartSample
    \/ EndTuning
    \/ LoopRetry
    \/ LoopPicked

Spec == Init /\ [][Next]_vars

\* The select/pick loop under fair random selection: np.random.choice gives
\* every pruning node of positive weight a positive probability in every
\* iteration, so an iteration that picks a leaf, possible in every iteration
\* of a call, eventually happens.
\* (CanPick: such an iteration is possible; LoopEnds: the steps that leave the
\* loop.  The steps of Next that leave the loop are those of LoopPicked, and
\* LoopPicked is possible exactly when CanPick holds.)
CanPick ==
    \E v \in SelectSet(nodes, pruning) :
        \/ PickAsserts(nodes, revealed, X_train_shape, tuning_phase, v)
        \/ PickOutcomes(nodes, revealed, X_train_shape, tuning_phase, v) # {}

LoopEnds == pc = "loop" /\ CanPick /\ pc' \in {"idle", "error"}

FairSpec == Spec /\ WF_pc(LoopEnds)

----------------------------------------------------------------------------
\* _get_upward_path(z_id, v_id), followed statement by statement on the
\* constructed tree.

\* __init__ up to the tuning loop, for the merge sequence ch
ConstructedNodes(ch) ==
    WithWeights(MarkLeaves(LinkMerges(<<>>, ch, 1, Len(ch) + 1)), Len(ch) + 1)

InitConstructed ==
    /\ children_ \in InputTrees
    /\ nodes = ConstructedNodes(children_)
    /\ root = FindRoot(nodes)
    /\ num_leaves = Len(children_) + 1
    /\ pruning = (root :> Sentinel)
    /\ revealed = {}
    /\ admissible_set = {}
    /\ tuning_phase = TRUE
    /\ pc = "idle"
    /\ calls = 0
    /\ v_id = Sentinel
    /\ z_id = Sentinel
    /\ ret = NoValue

\* no call of _get_upward_path has been made: its lru_cache is empty
FirstWalk == [at |-> "off", cache |-> <<>>]

\* (mutant) the cache looks a result up by the leaf alone
CacheKeyLeafOnly(z, v) == <<z>>

\* lru_cache: the key of a call, made of its arguments
CacheKey(z, v) == <<z, v>>

InitPath ==
    /\ InitConstructed
    /\ X_train_shape = 0
    /\ y_merged = [z \in 0 .. Len(children_) |-> 0]
    /\ labels = {0}
    /\ walk = FirstWalk
    /\ twin = NoTwin

\* the call and the statements before the loop: trail = [z_id], cur = z_id,
\* parent = self.nodes[cur].parent.id (an AttributeError for a parentless z_id)
\* A call with arguments not in the cache runs the body.
PathCall ==
    /\ walk.at \in {"off", "returned"}
    /\ Cardinality(DOMAIN walk.cache) < MaxCached
    /\ \E z \in {n \in DOMAIN nodes : nodes[n].is_leaf}, v \in DOMAIN nodes :
        /\ CacheKey(z, v) \notin DOMAIN walk.cache
        /\ walk' = IF nodes[z].parent = None
                   THEN [at |-> "raised", z_id |-> z, v_id |-> v, trail |-> <<z>>,
                         cur |-> z, parent |-> None, hit |-> FALSE,
                         cache |-> walk.cache]
                   ELSE [at |-> "loop", z_id |-> z, v_id |-> v, trail |-> <<z>>,
                         cur |-> z, parent |-> nodes[z].parent, hit |-> FALSE,
                         cache |-> walk.cache]
    /\ UNCHANGED <<inputs, tree, pruning, labels, revealed, admissible_set,
                   tuning_phase, pc, calls, v_id, z_id, ret, twin>>

\* @lru_cache: a call with the arguments of an earlier call that returned
\* does not run the body; it returns the list the earlier call returned
PathCallCached ==
    /\ walk.at \in {"off", "returned"}
    /\ \E z \in {n \in DOMAIN nodes : nodes[n].is_leaf}, v \in DOMAIN nodes :
        /\ CacheKey(z, v) \in DOMAIN walk.cache
        /\ walk' = [at |-> "returned", z_id |-> z, v_id |-> v,
                    trail |-> walk.cache[CacheKey(z, v)],
                    cur |-> None, parent |-> None, hit |-> TRUE,
                    cache |-> walk.cache]
    /\ UNCHANGED <<inputs, tree, pruning, labels, revealed, admissible_set,
                   tuning_phase, pc, calls, v_id, z_id, ret, twin>>

\* one iteration of `while cur != v_id`: cur = parent; parent becomes the
\* parent of cur, or stays what it was when cur has none (except: pass);
\* trail.append(cur); raise if cur is None
PathStep ==
    /\ walk.at = "loop"
    /\ walk.cur # walk.v_id
    /\ Len(walk.trail) < MaxTrail
    /\ LET c == walk.parent
           par == IF nodes[c].parent # None THEN nodes[c].parent ELSE walk.parent
       IN walk' = [walk EXCEPT !.cur = c,
                               !.parent = par,
                               !.trail = Append(@, c),
                               !.at = IF c = None THEN "raised" ELSE "loop"]
    /\ UNCHANGED <<inputs, tree, pruning, labels, revealed, admissible_set,
                   tuning_phase, pc, calls, v_id, z_id, ret, twin>>

\* the loop ends with cur == v_id: return trail (lru_cache keeps it)
PathReturn ==
    /\ walk.at = "loop"
    /\ walk.cur = walk.v_id
    /\ walk' = [walk EXCEPT
                  !.at = "returned",
                  !.cache = (CacheKey(walk.z_id, walk.v_id) :> walk.trail) @@ @]
    /\ UNCHANGED <<inputs, tree, pruning, labels, revealed, admissible_set,
                   tuning_phase, pc, calls, v_id, z_id, ret, twin>>

NextPath == PathCall \/ PathCallCached \/ PathStep \/ PathReturn

SpecPath == InitPath /\ [][NextPath]_vars

----------------------------------------------------------------------------
\* Two samplers over the same tree and the same labeled data, the second with
\* its own label vector for the unlabeled points, run with the same random
\* draws.  A step is a whole sample() call of both (the iterations that pick
\* nothing change neither sampler).

InitPair ==
    /\ InitConstructed
    /\ X_train_shape \in 0 .. Len(children_) + 1
    /\ y_merged \in [0 .. Len(children_) -> LabelValues]
    /\ labels = {y_merged[z] : z \in DOMAIN y_merged}
    /\ walk = NoWalk
    /\ \E y2 \in [0 .. Len(children_) -> LabelValues] :
        /\ \A z \in DOMAIN y2 : z < X_train_shape => y2[z] = y_merged[z]
        /\ twin = [on |-> TRUE,
                   y_merged |-> y2,
                   labels |-> {y2[z] : z \in DOMAIN y2},
                   nodes |-> nodes,
                   pruning |-> pruning,
                   revealed |-> {},
                   admissible_set |-> {},
                   drawn |-> {}]

\* sample() in both samplers: the same node and the same leaves are drawn
\* while the two prunings and revealed sets are the same.  The pair is
\* followed up to the first draw of a point on whose label the two differ.
PairSample ==
    /\ pc = "idle"
    /\ twin.on
    /\ \A z \in twin.drawn : y_merged[z] = twin.y_merged[z]
    /\ tuning_phase => calls < X_train_shape
    /\ pruning = twin.pruning
    /\ revealed = twin.revealed
    /\ \E v \in SelectSet(nodes, pruning) :
       \E o \in PickOutcomes(nodes, revealed, X_train_shape, tuning_phase, v) :
         LET z == o[2]
             path == UpwardPath(nodes, z, v)
             ns == update_counts(nodes, y_merged[z], path)
             adm == AdmissibleAfter(ns, admissible_set, labels, path,
                                    <<y_merged[z]>>)
             ns2 == update_counts(twin.nodes, twin.y_merged[z], path)
             adm2 == AdmissibleAfter(ns2, twin.admissible_set, twin.labels, path,
                                     <<twin.y_merged[z]>>)
         IN /\ ~PickAsserts(nodes, revealed, X_train_shape, tuning_phase, v)
            /\ revealed' = revealed \cup {o[1]}
            /\ v_id' = v
            /\ z_id' = z
            /\ nodes' = ns
            /\ admissible_set' = adm
            /\ pruning' = PruningAfter(ns, adm, labels, pruning)
            /\ ret' = SampleReturn(tuning_phase, z, y_merged)
            /\ calls' = calls + 1
            /\ twin' = [twin EXCEPT
                          !.nodes = ns2,
                          !.admissible_set = adm2,
                          !.pruning = PruningAfter(ns2, adm2, twin.labels, twin.pruning),
                          !.revealed = @ \cup {o[1]},
                          !.drawn = @ \cup {o[1], z}]
    /\ UNCHANGED <<inputs, root, num_leaves, labels, tuning_phase, pc, walk>>

\* both constructors leave the tuning phase
PairEndTuning ==
    /\ twin.on
    /\ EndTuning

NextPair == PairSample \/ PairEndTuning

SpecPair == InitPair /\ [][NextPair]_vars

----------------------------------------------------------------------------
\* Vocabulary of the properties.

\* the sampler is constructed up to its sampling fields (TUNING or ACTIVE)
Sampling == pc \in {"idle", "loop"}
Active == Sampling /\ ~tuning_phase
Leaves == {n \in DOMAIN nodes : nodes[n].is_leaf}
LabeledPoints == 0 .. X_train_shape - 1
\* the pruning keys whose subtree holds the leaf, by the parent links
CoveringKeys(leaf) == {v \in DOMAIN pruning : IsAncestorOrSelf(nodes, v, leaf)}
\* the nodes from z up to v, by the parent links
NodesBetween(z, v) ==
    {n \in DOMAIN nodes : IsAncestorOrSelf(nodes, n, z) /\ IsAncestorOrSelf(nodes, v, n)}
\* a sample() call returns in this step
SampleReturns == pc = "loop" /\ pc' = "idle"

RECURSIVE SumOver(_, _)
SumOver(f, S) ==
    IF S = {} THEN 0
    ELSE LET x == CHOOSE e \in S : TRUE IN f[x] + SumOver(f, S \ {x})

----------------------------------------------------------------------------
\* C1: once the sampler is constructed, and after every sample() call of the
\* tuning or the active phase, every leaf of the tree lies in the subtree of
\* exactly one pruning key.
PruningPartitionsLeaves ==
    Sampling => \A leaf \in Leaves : Cardinality(CoveringKeys(leaf)) = 1

\* a sample() call has split the pruning
PruningWasSplit ==
    /\ pc = "idle"
    /\ calls > 0
    /\ Cardinality(DOMAIN pruning) >= 2

\* C2: when an active sample() call has returned, the leaf whose counts were
\* updated and whose features and label were returned is in the revealed set.
ReturnedLeafIsRevealed ==
    (Active /\ pc = "idle" /\ ret # NoValue) => z_id \in revealed

\* C3: in the tuning phase every completed cycle has revealed one labeled
\* leaf and no unlabeled one; the tuning phase is left after exactly k cycles,
\* with every labeled leaf and no other leaf revealed.
TuningPhaseComplete ==
    /\ (Sampling /\ tuning_phase) =>
          /\ revealed \subseteq LabeledPoints
          /\ Cardinality(revealed) = calls
          /\ calls <= X_train_shape
    /\ Active =>
          /\ calls >= X_train_shape
          /\ LabeledPoints \subseteq revealed
          /\ calls = X_train_shape => revealed = LabeledPoints

\* the tuning phase of a sampler with labeled and unlabeled points is over
TuningJustEnded ==
    /\ Active
    /\ pc = "idle"
    /\ calls = X_train_shape
    /\ X_train_shape >= 2
    /\ X_train_shape < num_leaves

\* C7: a sample() call that draws leaf z from pruning node v raises the count
\* of z's label and num_revealed by one at exactly the nodes from z up to v,
\* and leaves every other counter of every node as it was.
RevealUpdatesExactlyThePath ==
    [][SampleReturns =>
        \A n \in DOMAIN nodes :
            IF n \in NodesBetween(z_id', v_id')
            THEN /\ nodes'[n].num_revealed = nodes[n].num_revealed + 1
                 /\ \A l \in LabelValues :
                      nodes'[n].class_to_instances[l] =
                        nodes[n].class_to_instances[l]
                          + (IF l = y_merged[z_id'] THEN 1 ELSE 0)
            ELSE /\ nodes'[n].num_revealed = nodes[n].num_revealed
                 /\ nodes'[n].class_to_instances = nodes[n].class_to_instances]_vars

\* the scenario: on the tree (0,1)->4, (2,3)->5, (4,5)->6 leaf 0 was drawn
\* from node 6 and only the nodes 0, 4 and 6 count it
ScenarioFirstDraw ==
    /\ children_ = ScenarioTree
    /\ pc = "idle"
    /\ calls = 1
    /\ v_id = 6
    /\ z_id = 0
    /\ \A n \in {0, 4, 6} : nodes[n].num_revealed = 1
    /\ \A n \in {1, 2, 3, 5} : nodes[n].num_revealed = 0

\* C8: at every node num_revealed is the sum of the counts of
\* class_to_instances.
NumRevealedIsSumOfCounts ==
    \A n \in DOMAIN nodes :
        nodes[n].num_revealed =
            SumOver(nodes[n].class_to_instances, DOMAIN nodes[n].class_to_instances)

\* a node has counted several reveals, of both labels
NodeCountsTwoLabels ==
    \E n \in DOMAIN nodes :
        /\ nodes[n].num_revealed >= 3
        /\ \A l \in LabelValues : nodes[n].class_to_instances[l] >= 1

\* C9: a sample() call that returns in the tuning phase returns nothing; one
\* that returns in the active phase returns the features and the true label
\* of one originally unlabeled point; the sampler never goes back to tuning.
SampleReturnValue ==
    [][/\ SampleReturns =>
            IF tuning_phase
            THEN ret' = NoValue
            ELSE \E z \in DOMAIN y_merged :
                    /\ z >= X_train_shape
                    /\ z = z_id'
                    /\ ret' = <<z, y_merged[z]>>
       /\ Active => ~tuning_phase']_vars

\* both kinds of call have returned: tuning calls, then an active one
ActiveCallReturned ==
    /\ Active
    /\ pc = "idle"
    /\ X_train_shape >= 1
    /\ calls > X_train_shape
    /\ ret # NoValue

\* some leaf the pick can return is left: in the tuning phase an unrevealed
\* labeled leaf, in the active phase an unrevealed unlabeled leaf
EligibleLeafExists ==
    \E leaf \in Leaves :
        /\ leaf \notin revealed
        /\ tuning_phase <=> ~IsUnlabeled(leaf, X_train_shape)

\* C4: every started sample() call eventually returns or signals a fatal
\* error.
EverySampleCallEnds == (pc = "loop") ~> (pc \in {"idle", "error"})

\* C5: a walk of _get_upward_path that has reached the root without meeting
\* v_id raises in its next step; it neither returns nor walks on.
WalkPastRootRaises ==
    [][(walk.at = "loop" /\ walk.cur = root /\ walk.v_id # root)
          => walk'.at = "raised"]_vars

\* C6: as long as the two label vectors agree on every point drawn or
\* revealed so far, the two samplers have the same admissible set and the
\* same pruning (keys and labels).
UnrevealedLabelsDoNotMatter ==
    (twin.on /\ \A z \in twin.drawn : y_merged[z] = twin.y_merged[z]) =>
        /\ admissible_set = twin.admissible_set
        /\ pruning = twin.pruning

\* C10: a sample() call in whose loop an eligible unrevealed leaf exists
\* eventually picks a leaf and returns.
EligibleLeafIsFound == (pc = "loop" /\ EligibleLeafExists) ~> (pc = "idle")

\* an iteration picked nothing although an eligible leaf exists
RetryWithEligibleLeaf ==
    /\ pc = "loop"
    /\ z_id = None
    /\ EligibleLeafExists

----------------------------------------------------------------------------
\* C11: a sample() call only refines the pruning: every key of the pruning
\* after the call is a key of the pruning before it or a descendant of one.
PruningOnlyRefined ==
    [][SampleReturns =>
        \A key \in DOMAIN pruning' :
            \E v \in DOMAIN pruning : IsAncestorOrSelf(nodes, v, key)]_vars

\* the pruning has been refined below the children of the root
PruningRefinedTwice ==
    /\ pc = "idle"
    /\ \E key \in DOMAIN pruning : key # root /\ nodes[key].parent # root

\* C12: a pair that is in the admissible set stays in it, also when the
\* admissibility test on the later counts is false for it.
AdmissibleSetOnlyGrows ==
    [][admissible_set \subseteq admissible_set']_vars

\* a pair is in the admissible set although the test on the present counts
\* would not admit it
AdmissiblePairNoLongerPasses ==
    /\ pc = "idle"
    /\ \E vl \in admissible_set : ~is_admissible(nodes, labels, vl[1], vl[2])

\* C13: whatever the set of known labels, the admissibility test is false for
\* every label at a node without revealed instances.
NoObservationsNotAdmissible ==
    Sampling =>
        \A n \in DOMAIN nodes : \A l \in labels :
            nodes[n].num_revealed = 0 => ~is_admissible(nodes, labels, n, l)

\* C14: for v the leaf z or an ancestor of z, a call path(z, v) that returns,
\* the first or a later one with the same arguments, returns the sequence
\* that starts with z, ends with v and goes from each element to its parent
\* (there is one such sequence, of length 1 when v = z).
PathIsTheParentChain ==
    (walk.at = "returned" /\ IsAncestorOrSelf(nodes, walk.v_id, walk.z_id)) =>
        /\ walk.trail[1] = walk.z_id
        /\ walk.trail[Len(walk.trail)] = walk.v_id
        /\ \A i \in 2 .. Len(walk.trail) :
              walk.trail[i] = nodes[walk.trail[i - 1]].parent
        /\ walk.v_id = walk.z_id => Len(walk.trail) = 1

\* a second call with the same arguments returned a path of three nodes
SecondCallReturned ==
    /\ walk.at = "returned"
    /\ walk.hit
    /\ Len(walk.trail) >= 3
    /\ Cardinality(DOMAIN walk.cache) = 2

\* the nodes that name n as their parent, and the nodes that have n as a child
ChildrenOf(n) == {c \in DOMAIN nodes : nodes[c].parent = n}
ParentsOf(n) == {p \in DOMAIN nodes : nodes[p].left = n \/ nodes[p].right = n}

\* C15: in the constructed tree the leaves are the ids 0..N-1; exactly one
\* node has no parent and it is the root; every other node is the child of
\* exactly one node, its parent; every internal node has two children and
\* every leaf has none.
ConstructedTreeShape ==
    pc # "construct_tree" =>
        /\ {n \in DOMAIN nodes : nodes[n].is_leaf} = 0 .. Len(children_)
        /\ Cardinality({n \in DOMAIN nodes : nodes[n].is_leaf}) = num_leaves
        /\ num_leaves = Len(children_) + 1
        /\ {n \in DOMAIN nodes : nodes[n].parent = None} = {root}
        /\ \A n \in DOMAIN nodes \ {root} : ParentsOf(n) = {nodes[n].parent}
        /\ ParentsOf(root) = {}
        /\ \A n \in DOMAIN nodes :
              IF nodes[n].is_leaf
              THEN nodes[n].left = None /\ nodes[n].right = None /\ ChildrenOf(n) = {}
              ELSE /\ nodes[n].left # nodes[n].right
                   /\ ChildrenOf(n) = {nodes[n].left, nodes[n].right}
                   /\ Cardinality(ChildrenOf(n)) = 2

\* the chain of four leaves has been constructed
ChainTreeConstructed == pc = "compute_weights" /\ children_ = ChainTree

\* the childless nodes that reach n over parent links
LeavesUnder(n) ==
    {l \in DOMAIN nodes : /\ nodes[l].left = None /\ nodes[l].right = None
                          /\ IsAncestorOrSelf(nodes, n, l)}

\* C16: after _compute_weights the weight of every node is the number of
\* leaves under it, recounted over the parent links, divided by the number
\* of leaves; the root's weight is 1 and no child is heavier than its
\* parent (as numbers, and as the floats the division gives).
WeightIsLeafShare ==
    pc \notin {"construct_tree", "compute_weights"} =>
        /\ \A n \in DOMAIN nodes :
              /\ nodes[n].weight = <<Cardinality(LeavesUnder(n)), num_leaves>>
              /\ Len(nodes[n].subtree_leaves) = Cardinality(LeavesUnder(n))
              /\ n # root =>
                    ~RatLess(nodes[nodes[n].parent].weight, nodes[n].weight)
        /\ RatEq(nodes[root].weight, <<1, 1>>)
        /\ pc = "init_sampling" =>
              /\ WeightFloat(nodes[root].weight) = FloatOf(1)
              /\ \A n \in DOMAIN nodes \ {root} :
                    ~FloatLess(WeightFloat(nodes[nodes[n].parent].weight),
                               WeightFloat(nodes[n].weight))

\* the chain of four leaves has its weights 1/4, 2/4, 3/4 and 1
ChainTreeWeighed ==
    /\ pc = "init_sampling"
    /\ children_ = ChainTree
    /\ {nodes[n].weight[1] : n \in DOMAIN nodes} = 1 .. 4

\* a tree of one node with n revealed instances, all of label 0
OneLabelNode(n) ==
    0 :> [NewNode(0) EXCEPT !.num_revealed = n,
                            !.class_to_instances = (0 :> n @@ 1 :> 0)]

\* C17: with beta = 2 and two or more known labels, a node on the path of the
\* update whose n >= 2 revealed instances all have one label A has (node, A)
\* in the admissible set after the update; and the test passes for every
\* n from 2 to 10 instances of A and none of B.
OneLabelNodeIsAdmissible ==
    /\ (pc = "idle" /\ calls > 0 /\ Cardinality(labels) >= 2) =>
            \A n \in NodesBetween(z_id, v_id) : \A A \in labels :
                (/\ nodes[n].num_revealed >= 2
                 /\ nodes[n].class_to_instances[A] = nodes[n].num_revealed)
                    => <<n, A>> \in admissible_set
    /\ \A n \in 2 .. MaxInstances :
            is_admissible(OneLabelNode(n), LabelValues, 0, 0)

\* an update has passed a node with two or more instances, all of the label
\* just revealed, while two labels are known
OneLabelNodeUpdated ==
    /\ pc = "idle" /\ calls > 0 /\ labels = LabelValues
    /\ \E n \in NodesBetween(z_id, v_id) :
            /\ nodes[n].num_revealed >= 2
            /\ nodes[n].class_to_instances[y_merged[z_id]] = nodes[n].num_revealed

\* for a node v, on the counts ns and the admissible set adm: v's own best
\* score, and the combination of its children's scores, as numbers
BestScoreOf(ns, adm, lbls, v) ==
    epsilon_tilda_vl(ns, adm, v, best_label(ns, adm, lbls, v))

ChildrenCombination(ns, adm, lbls, v) ==
    RatAdd(RatMul(RatDiv(ns[ns[v].left].weight, ns[v].weight),
                  s_v(ns, adm, lbls, ns[v].left).score),
           RatMul(RatDiv(ns[ns[v].right].weight, ns[v].weight),
                  s_v(ns, adm, lbls, ns[v].right).score))

\* C18: in an update a key v of the pruning is replaced by a finer partition
\* only if v is not a leaf, has an admissible label, and the combination of
\* its children's scores is strictly lower than its own best score;
\* otherwise v stays a key, with a label that minimises epsilon.
KeySplitOnlyIfChildrenLower ==
    [][SampleReturns =>
        \A v \in DOMAIN pruning :
            IF v \notin DOMAIN pruning'
            THEN /\ ~nodes[v].is_leaf
                 /\ has_admissible(admissible_set', labels, v)
                 /\ RatLess(ChildrenCombination(nodes', admissible_set', labels, v),
                            BestScoreOf(nodes', admissible_set', labels, v))
            ELSE \A m \in labels :
                    ~RatLess(epsilon_tilda_vl(nodes', admissible_set', v, m),
                             epsilon_tilda_vl(nodes', admissible_set', v, pruning'[v]))]_vars

\* C19: in the active state no point is returned by two sample() calls.
\* (Every call that returns a leaf adds one to the leaf's num_revealed, and
\* an unlabeled leaf is returned by active calls only: the leaf a call
\* returns has been returned before exactly when its num_revealed is not 0.)
NoPointReturnedTwice ==
    [][(SampleReturns /\ ~tuning_phase) => nodes[z_id'].num_revealed = 0]_vars

\* C20: num_revealed of a node is at most the number of revealed leaves under
\* it: at most 1 at a leaf, and 0 at a leaf that is not revealed.
CountedLeavesAreRevealed ==
    Sampling =>
        \A n \in DOMAIN nodes :
            nodes[n].num_revealed <= Cardinality(LeavesUnder(n) \cap revealed)

\* the leaves under v that a pick may return: unrevealed, and labeled in the
\* tuning phase, unlabeled after it
EligibleUnder(v) ==
    {l \in LeavesUnder(v) :
        /\ l \notin revealed
        /\ tuning_phase <=> ~IsUnlabeled(l, X_train_shape)}

\* C21: an iteration of the loop of sample() whose selected node has no
\* eligible unrevealed leaf picks nothing and changes nothing: the revealed
\* set, the counters of every node, the admissible set and the pruning stay
\* as they are, no error is raised, nothing is returned, and the call is back
\* in its loop, where the next step selects a node again.
RetryChangesNothing ==
    [][(pc = "loop" /\ EligibleUnder(v_id') = {}) =>
            /\ z_id' = None
            /\ revealed' = revealed
            /\ nodes' = nodes
            /\ admissible_set' = admissible_set
            /\ pruning' = pruning
            /\ ret' = ret
            /\ calls' = calls
            /\ pc' = "loop"
            /\ v_id' \in SelectSet(nodes, pruning)]_vars

\* in the active state an iteration has picked nothing at a node below the
\* root, after some leaf was revealed
RetriedBelowRoot ==
    /\ pc = "loop"
    /\ ~tuning_phase
    /\ z_id = None
    /\ v_id # root
    /\ revealed # {}

\* C22: every proper ancestor of a key of the pruning has a label that is
\* admissible for it.
SplitNodesHaveAdmissibleLabel ==
    Sampling =>
        \A key \in DOMAIN pruning : \A a \in DOMAIN nodes :
            (a # key /\ IsAncestorOrSelf(nodes, a, key)) =>
                \E l \in labels : <<a, l>> \in admissible_set

\* a leaf two or more levels below the root is a key of the pruning
DeepLeafIsKey ==
    /\ pc = "idle"
    /\ \E key \in DOMAIN pruning :
            /\ nodes[key].is_leaf
            /\ nodes[key].parent \notin {None, root}

====
